---- MODULE Spec2Model ----
(***************************************************************************)
(* Captain Signature storefront: session carts, checkout, stock and the    *)
(* order status routes of app.py, with the Cart class of cart.py.          *)
(*                                                                         *)
(* Every route is one atomic action, except checkout: its database         *)
(* transaction is split into the steps at which other requests can be      *)
(* served (open the order, process one cart line, commit), because the     *)
(* product rows it reads and writes are shared with other shoppers.        *)
(***************************************************************************)
EXTENDS Integers, Sequences, FiniteSets, TLC

(* ------------------------------ bounds -------------------------------- *)

\* stock every product starts with
InitStock == 1
\* largest quantity a single add_to_cart / update_cart request asks for
MaxQty == 1
\* largest quantity one cart line accumulates
MaxCartQty == 1
\* orders the store holds at most
MaxOrders == 2
\* tracking events one order holds at most
MaxTrack == 3
\* clock ticks the model follows
MaxNow == 2
\* largest quantity a call of Cart.add or Cart.update is given
MaxAdd == 2
\* largest quantity, of either sign, a cart line reaches through such calls
MaxLine == 3
\* largest subtotal the delivery fee rule is asked about
MaxSubtotal == 10

(* ------------------------- program constants -------------------------- *)

\* seconds of the customer cancellation window (app.py:1178)
CancelWindow == 3600
\* seconds one clock tick stands for: half the window, so that 30 and 60
\* minutes after placement are told apart
TickSeconds == CancelWindow \div 2

Shoppers == {"s1", "s2"}
Products == {1, 2}

\* valid_statuses of update_order_status
valid_statuses == {"pending", "processing", "shipped", "delivered", "cancelled"}

\* what a status form field can carry: a valid status or any other text
FormStatuses == valid_statuses \cup {"bogus"}

\* quantities the cart forms post in this model: 0 (update_cart's "remove")
\* up to MaxQty
QtyInputs == 0..MaxQty

\* price, name and image every product starts with
ProductPrice == [p \in Products |-> p]
ProductName == [p \in Products |-> "shirt"]
ProductImage == [p \in Products |-> "shirt.png"]

\* what the product form posts: name, price, stock and an uploaded image
\* (NoUpload: the file field is left empty). DataRequired refuses an empty
\* name, a price of 0 and a stock of 0, and nothing refuses a negative stock.
Names == {"shirt", "polo"}
Prices == {1, 2}
EditStocks == (-1..InitStock) \ {0}
NoUpload == "no file"
Images == {"shirt.png", "polo.png"}

\* the accounts: the shoppers and the admin created at start-up
Users == Shoppers \cup {"admin"}
is_admin == [u \in Users |-> u = "admin"]

VARIABLES
    catalog,    \* Product table: [p -> [exists, stock, price, name, image]]
    cart,       \* session['cart'] of each shopper: sequence of lines in insertion order
    tx,         \* the checkout request of each shopper and its open transaction
    orders,     \* committed Order rows with their OrderItem rows, by order id
    tracking,   \* committed OrderTracking rows of each order, oldest first
    now,        \* datetime.utcnow(), in ticks
    settings    \* the Settings row: [delivery_fee, free_delivery_threshold]

vars == <<catalog, cart, tx, orders, tracking, now, settings>>

(* ------------------------------ cart.py -------------------------------- *)

\* a variant of Cart._clean_cart that also drops the entries without price
clean_cart_priced(c) ==
    SelectSeq(c, LAMBDA line : {"quantity", "price"} \subseteq DOMAIN line)

\* Cart._clean_cart, run by the constructor: the entries that are not a
\* dict (here: a line with the field "scalar") or have no 'quantity' go
_clean_cart(c) ==
    SelectSeq(c, LAMBDA line : "scalar" \notin DOMAIN line /\ "quantity" \in DOMAIN line)

\* index of product pid in the cart, 0 when absent ("product_id in self.cart")
CartIndex(c, pid) ==
    IF \E i \in 1..Len(c) : c[i].pid = pid
    THEN CHOOSE i \in 1..Len(c) : c[i].pid = pid
    ELSE 0

\* a variant of Cart.add that takes the price, name and image of every call
CartAddRefreshing(c, pid, quantity, price, name, image) ==
    LET i == CartIndex(c, pid) IN
    IF i # 0
    THEN [c EXCEPT ![i] = [pid |-> pid, quantity |-> c[i].quantity + quantity,
                           price |-> price, name |-> name, image |-> image]]
    ELSE Append(c, [pid |-> pid, quantity |-> quantity, price |-> price,
                    name |-> name, image |-> image])

\* Cart.add
CartAdd(c, pid, quantity, price, name, image) ==
    LET i == CartIndex(c, pid) IN
    IF i # 0
    THEN [c EXCEPT ![i].quantity = @ + quantity]
    ELSE Append(c, [pid |-> pid, quantity |-> quantity, price |-> price,
                    name |-> name, image |-> image])

\* "del self.cart[product_id]"
CartDel(c, pid) == SelectSeq(c, LAMBDA line : line.pid # pid)

\* a variant of Cart.update that removes the line only below 0
CartUpdateKeepingZero(c, pid, quantity) ==
    LET i == CartIndex(c, pid) IN
    IF i = 0 THEN c
    ELSE IF quantity < 0 THEN SelectSeq(c, LAMBDA line : line.pid # pid)
    ELSE [c EXCEPT ![i].quantity = quantity]

\* Cart.update
CartUpdate(c, pid, quantity) ==
    LET i == CartIndex(c, pid) IN
    IF i = 0 THEN c
    ELSE IF quantity <= 0 THEN CartDel(c, pid)
    ELSE [c EXCEPT ![i].quantity = quantity]

\* Cart.remove
CartRemove(c, pid) == CartDel(c, pid)

\* a variant of Cart.get_subtotal that counts every line once
RECURSIVE get_subtotal_of_lines(_)
get_subtotal_of_lines(c) ==
    IF c = <<>> THEN 0
    ELSE Head(c).price + get_subtotal_of_lines(Tail(c))

\* Cart.get_subtotal: sum of float(price) * int(quantity) over the lines
\* that have both
RECURSIVE get_subtotal(_)
get_subtotal(c) ==
    IF c = <<>> THEN 0
    ELSE (IF {"price", "quantity"} \subseteq DOMAIN Head(c)
          THEN Head(c).price * Head(c).quantity ELSE 0)
         + get_subtotal(Tail(c))

\* Cart.get_items_count: the number of lines
get_items_count(c) == Len(c)

\* a variant of Cart.get_total_items that leaves out the lines whose
\* quantity is not positive
RECURSIVE get_total_items_positive(_)
get_total_items_positive(c) ==
    IF c = <<>> THEN 0
    ELSE (IF Head(c).quantity > 0 THEN Head(c).quantity ELSE 0)
         + get_total_items_positive(Tail(c))

\* Cart.get_total_items: sum of int(quantity) over the lines that have one
RECURSIVE get_total_items(_)
get_total_items(c) ==
    IF c = <<>> THEN 0
    ELSE (IF "quantity" \in DOMAIN Head(c) THEN Head(c).quantity ELSE 0)
         + get_total_items(Tail(c))

\* Cart.get_delivery_fee: a fixed amount
get_delivery_fee(c) == 1500

\* Cart.get_total
get_total(c) == get_subtotal(c) + get_delivery_fee(c)

(* ------------------------------ pricing -------------------------------- *)

\* the Settings row as created at start-up
InitSettings == [delivery_fee |-> 1500, free_delivery_threshold |-> 0]

\* a variant of the delivery fee rule: free only above the threshold
DeliveryFeeAbove(subtotal, st) ==
    IF st.free_delivery_threshold > 0 /\ subtotal > st.free_delivery_threshold
    THEN 0
    ELSE st.delivery_fee

\* a variant of the delivery fee rule: a threshold of 0 is a threshold
DeliveryFeeFromZero(subtotal, st) ==
    IF subtotal >= st.free_delivery_threshold
    THEN 0
    ELSE st.delivery_fee

\* the delivery fee rule of checkout and view_cart
DeliveryFee(subtotal, st) ==
    IF st.free_delivery_threshold > 0 /\ subtotal >= st.free_delivery_threshold
    THEN 0
    ELSE st.delivery_fee

\* view_cart: what the cart page of s shows, from the session cart and the
\* Settings row read by the request
view_cart(s) ==
    LET subtotal == get_subtotal(cart[s])
        delivery_fee == DeliveryFee(subtotal, settings)
    IN [subtotal |-> subtotal, delivery_fee |-> delivery_fee,
        total |-> subtotal + delivery_fee]

(* --------------------------- checkout (app.py) ------------------------- *)

\* no checkout request of the shopper is running: the last one has
\* returned its response and holds no transaction
Idle ==
    [pc |-> "idle", idx |-> 0, items |-> <<>>, dirty |-> <<>>,
     subtotal |-> 0, delivery_fee |-> 0, total_amount |-> 0, order_date |-> 0,
     order_id |-> 0]

\* the checkout request of s is inside its transaction
InFlight(s) == tx[s].pc = "lines"

\* the checkout request of s has committed order tx[s].order_id and is
\* sending the order-placed e-mails
Notifying(s) == tx[s].pc = "notify"

\* no request of s is being served (the requests of one session are
\* served one after the other)
Resting(s) == tx[s].pc = "idle"

NumInFlight == Cardinality({s \in Shoppers : InFlight(s)})

\* checkout up to db.session.flush(): the empty-cart test (the request
\* ends there with a redirect), the totals and the Order row added to the
\* open transaction
CheckoutBegin(s) ==
    /\ Resting(s)
    /\ IF get_total_items(cart[s]) = 0
       THEN tx' = [tx EXCEPT ![s] = Idle]
       ELSE /\ Len(orders) + NumInFlight < MaxOrders
            /\ LET subtotal == get_subtotal(cart[s])
                   fee == DeliveryFee(subtotal, settings)
               IN tx' = [tx EXCEPT ![s] =
                     [pc |-> "lines", idx |-> 1, items |-> <<>>, dirty |-> <<>>,
                      subtotal |-> subtotal, delivery_fee |-> fee,
                      total_amount |-> subtotal + fee,
                      order_date |-> now, order_id |-> 0]]
    /\ UNCHANGED <<catalog, cart, orders, tracking, now, settings>>

\* A variant of CheckoutLine with autocommit: every line's stock decrement is committed on its
\* own, inside the loop
CheckoutLineCommitsEach(s) ==
    /\ InFlight(s)
    /\ tx[s].idx <= Len(cart[s])
    /\ LET line == cart[s][tx[s].idx] IN
       IF ~catalog[line.pid].exists
       THEN tx' = [tx EXCEPT ![s] = Idle] /\ catalog' = catalog
       ELSE /\ tx' = [tx EXCEPT
                ![s].idx = @ + 1,
                ![s].items = Append(@, [pid |-> line.pid,
                                         quantity |-> line.quantity,
                                         price |-> line.price,
                                         product_name |-> catalog[line.pid].name,
                                         product_image |-> catalog[line.pid].image]),
                ![s].dirty = Append(@, catalog[line.pid].stock - line.quantity)]
            /\ catalog' = [catalog EXCEPT ![line.pid].stock = @ - line.quantity]
    /\ UNCHANGED <<cart, orders, tracking, now, settings>>

\* A variant of CheckoutLine that puts the product's current price on the
\* order item, the subtotal of the order staying the cart's
CheckoutLineAtCatalogPrice(s) ==
    /\ InFlight(s)
    /\ tx[s].idx <= Len(cart[s])
    /\ LET line == cart[s][tx[s].idx] IN
       IF ~catalog[line.pid].exists
       THEN tx' = [tx EXCEPT ![s] = Idle]
       ELSE tx' = [tx EXCEPT
                ![s].idx = @ + 1,
                ![s].items = Append(@, [pid |-> line.pid,
                                         quantity |-> line.quantity,
                                         price |-> catalog[line.pid].price,
                                         product_name |-> catalog[line.pid].name,
                                         product_image |-> catalog[line.pid].image]),
                ![s].dirty = Append(@, catalog[line.pid].stock - line.quantity)]
    /\ UNCHANGED <<catalog, cart, orders, tracking, now, settings>>

\* one turn of "for product_id, item in cart.get_cart().items()": the
\* product row is read as committed, an OrderItem is added and the new
\* stock is computed in the session (product.stock -= quantity); nothing
\* compares the quantity with the stock. A product that is gone raises,
\* and the except branch ends the request with nothing committed.
CheckoutLine(s) ==
    /\ InFlight(s)
    /\ tx[s].idx <= Len(cart[s])
    /\ LET line == cart[s][tx[s].idx] IN
       IF ~catalog[line.pid].exists
       THEN tx' = [tx EXCEPT ![s] = Idle]
       ELSE tx' = [tx EXCEPT
                ![s].idx = @ + 1,
                ![s].items = Append(@, [pid |-> line.pid,
                                         quantity |-> line.quantity,
                                         price |-> line.price,
                                         product_name |-> catalog[line.pid].name,
                                         product_image |-> catalog[line.pid].image]),
                ![s].dirty = Append(@, catalog[line.pid].stock - line.quantity)]
    /\ UNCHANGED <<catalog, cart, orders, tracking, now, settings>>

\* "except Exception" of checkout: an error of the database inside the try
\* block (a deadlock with another checkout, a lost connection) ends the
\* request; its transaction is never committed and the cart is kept
CheckoutFails(s) ==
    /\ InFlight(s)
    /\ tx' = [tx EXCEPT ![s] = Idle]
    /\ UNCHANGED <<catalog, cart, orders, tracking, now, settings>>

\* the stock the transaction t writes for product p at commit
DirtyStock(t, p) ==
    LET i == CHOOSE i \in 1..Len(t.items) : t.items[i].pid = p
    IN t.dirty[i]

Touches(t, p) == \E i \in 1..Len(t.items) : t.items[i].pid = p

\* db.session.commit() and cart.clear(): the order, its items, the stock
\* values computed by the loop and the first tracking row become visible
\* together, and the request goes on to the e-mails. The UPDATE of a
\* product row deleted meanwhile fails and the request ends in the except
\* branch.
CheckoutCommit(s) ==
    /\ InFlight(s)
    /\ tx[s].idx > Len(cart[s])
    /\ IF \E i \in 1..Len(tx[s].items) : ~catalog[tx[s].items[i].pid].exists
       THEN /\ tx' = [tx EXCEPT ![s] = Idle]
            /\ UNCHANGED <<catalog, cart, orders, tracking>>
       ELSE /\ orders' = Append(orders,
                   [user |-> s, status |-> "pending",
                    order_date |-> tx[s].order_date,
                    items |-> tx[s].items,
                    subtotal |-> tx[s].subtotal,
                    delivery_fee |-> tx[s].delivery_fee,
                    total_amount |-> tx[s].total_amount])
            /\ tracking' = Append(tracking,
                   << [status |-> "pending", updated_by |-> "system"] >>)
            /\ catalog' = [p \in Products |->
                   IF Touches(tx[s], p)
                   THEN [catalog[p] EXCEPT !.stock = DirtyStock(tx[s], p)]
                   ELSE catalog[p]]
            /\ cart' = [cart EXCEPT ![s] = <<>>]
            /\ tx' = [tx EXCEPT ![s] =
                   [Idle EXCEPT !.pc = "notify", !.order_id = Len(orders) + 1]]
    /\ UNCHANGED <<now, settings>>

(* --------------------------- cart routes (app.py) ---------------------- *)

\* add_to_cart: 404 for an unknown product, the request is refused when the
\* posted quantity exceeds the stock, else Cart.add with the catalog price.
\* The model follows the requests that leave no line above cap units.
add_to_cart_upto(s, p, quantity, cap) ==
    /\ Resting(s)
    /\ catalog[p].exists
    /\ quantity <= catalog[p].stock
    /\ cart' = [cart EXCEPT ![s] = CartAdd(@, p, quantity, catalog[p].price,
                                           catalog[p].name, catalog[p].image)]
    /\ \A i \in 1..Len(cart'[s]) : cart'[s][i].quantity \in 0..cap
    /\ UNCHANGED <<catalog, tx, orders, tracking, now, settings>>

\* add_to_cart where stock is also bought: lines of MaxCartQty units at most
add_to_cart(s, p, quantity) == add_to_cart_upto(s, p, quantity, MaxCartQty)

\* update_cart: same stock test, then Cart.update
update_cart(s, p, quantity) ==
    /\ Resting(s)
    /\ catalog[p].exists
    /\ quantity <= catalog[p].stock
    /\ cart' = [cart EXCEPT ![s] = CartUpdate(@, p, quantity)]
    /\ UNCHANGED <<catalog, tx, orders, tracking, now, settings>>

\* remove_from_cart
remove_from_cart(s, p) ==
    /\ Resting(s)
    /\ cart' = [cart EXCEPT ![s] = CartRemove(@, p)]
    /\ UNCHANGED <<catalog, tx, orders, tracking, now, settings>>

\* clear_cart: Cart.clear
clear_cart(s) ==
    /\ Resting(s)
    /\ cart' = [cart EXCEPT ![s] = <<>>]
    /\ UNCHANGED <<catalog, tx, orders, tracking, now, settings>>

(* --------------------------- order routes (app.py) --------------------- *)

OrderIds == 1..Len(orders)

\* seconds since the order was placed: datetime.utcnow() - order.order_date
Elapsed(o) == (now - orders[o].order_date) * TickSeconds

\* A variant of can_cancel: the window test is "<=" instead of "<"
can_cancel_inclusive(o) ==
    CASE orders[o].status = "processing" -> Elapsed(o) <= CancelWindow
      [] orders[o].status = "pending" -> TRUE
      [] OTHER -> FALSE

\* A variant of can_cancel: the one-hour window also gates pending orders
can_cancel_window_for_all(o) ==
    CASE orders[o].status = "processing" -> Elapsed(o) < CancelWindow
      [] orders[o].status = "pending" -> Elapsed(o) < CancelWindow
      [] OTHER -> FALSE

\* A variant of can_cancel: a shipped order can still be cancelled
can_cancel_until_delivered(o) ==
    CASE orders[o].status = "shipped" -> TRUE
      [] orders[o].status = "processing" -> Elapsed(o) < CancelWindow
      [] orders[o].status = "pending" -> TRUE
      [] OTHER -> FALSE

\* the can_cancel decision of cancel_order
can_cancel(o) ==
    CASE orders[o].status = "delivered" -> FALSE
      [] orders[o].status = "cancelled" -> FALSE
      [] orders[o].status = "shipped" -> FALSE
      [] orders[o].status = "processing" -> Elapsed(o) < CancelWindow
      [] orders[o].status = "pending" -> TRUE
      [] OTHER -> FALSE

\* units of product p on the items of order o
RECURSIVE UnitsOf(_, _)
UnitsOf(items, p) ==
    IF items = <<>> THEN 0
    ELSE (IF Head(items).pid = p THEN Head(items).quantity ELSE 0)
         + UnitsOf(Tail(items), p)

\* "Restore stock" of cancel_order: every item's quantity goes back to its
\* product, when the product still exists
RestoreStock(cat, items) ==
    [p \in Products |->
        IF cat[p].exists
        THEN [cat[p] EXCEPT !.stock = @ + UnitsOf(items, p)]
        ELSE cat[p]]

Track(status, by) == [status |-> status, updated_by |-> by]

\* what the call of send_order_notifications comes to: both e-mails handed
\* to their threads (True), one of them not (False), or an exception
MailOutcomes == {"sent", "failed", "raised"}

\* a variant of send_order_notifications that runs inside the transaction
\* of the checkout: when the e-mails cannot be sent the order is undone,
\* its units go back to the stock
send_order_notifications_in_tx(s, outcome) ==
    /\ Notifying(s)
    /\ tx' = [tx EXCEPT ![s] = Idle]
    /\ IF outcome = "sent"
       THEN UNCHANGED <<catalog, orders>>
       ELSE /\ catalog' = RestoreStock(catalog, orders[tx[s].order_id].items)
            /\ orders' = [orders EXCEPT ![tx[s].order_id].status = "cancelled"]
    /\ UNCHANGED <<cart, tracking, now, settings>>

\* the rest of checkout after the commit: send_order_notifications inside
\* its own try/except, whose result is only printed, then the success
\* flash and the redirect to the order page
send_order_notifications(s, outcome) ==
    /\ Notifying(s)
    /\ tx' = [tx EXCEPT ![s] = Idle]
    /\ UNCHANGED <<catalog, cart, orders, tracking, now, settings>>

\* cancel_order by the customer s: 403 for somebody else's order; when
\* can_cancel, status, stock and tracking row are committed together
cancel_order(s, o) ==
    /\ o \in OrderIds
    /\ orders[o].user = s
    /\ can_cancel(o)
    /\ Len(tracking[o]) < MaxTrack
    /\ orders' = [orders EXCEPT ![o].status = "cancelled"]
    /\ catalog' = RestoreStock(catalog, orders[o].items)
    /\ tracking' = [tracking EXCEPT ![o] = Append(@, Track("cancelled", "customer"))]
    /\ UNCHANGED <<cart, tx, now, settings>>

\* update_order_status by an admin: any valid status is stored, with a
\* tracking row; stock is not touched
update_order_status(o, status) ==
    /\ o \in OrderIds
    /\ status \in valid_statuses
    /\ Len(tracking[o]) < MaxTrack
    /\ orders' = [orders EXCEPT ![o].status = status]
    /\ tracking' = [tracking EXCEPT ![o] = Append(@, Track(status, "admin"))]
    /\ UNCHANGED <<catalog, cart, tx, now, settings>>

\* request.form.get('status') of a form without the field
NoStatus == "None"

\* update_tracking (POST) by an admin: the posted status is stored as it
\* is; a tracking row is added only with a tracking_description. A row
\* without status violates NOT NULL and the request fails.
update_tracking(o, status, described) ==
    /\ o \in OrderIds
    /\ ~(described /\ status = NoStatus)
    /\ described => Len(tracking[o]) < MaxTrack
    /\ orders' = [orders EXCEPT ![o].status = status]
    /\ tracking' = [tracking EXCEPT ![o] =
            IF described THEN Append(@, Track(status, "admin")) ELSE @]
    /\ UNCHANGED <<catalog, cart, tx, now, settings>>

\* bulk_tracking_update by an admin: every listed order gets the posted
\* status, whatever it is, and a tracking row, in one commit
bulk_tracking_update(ids, status) ==
    /\ ids # {}
    /\ ids \subseteq OrderIds
    /\ \A o \in ids : Len(tracking[o]) < MaxTrack
    /\ orders' = [o \in OrderIds |->
            IF o \in ids THEN [orders[o] EXCEPT !.status = status] ELSE orders[o]]
    /\ tracking' = [o \in OrderIds |->
            IF o \in ids THEN Append(tracking[o], Track(status, "admin"))
            ELSE tracking[o]]
    /\ UNCHANGED <<catalog, cart, tx, now, settings>>

(* --------------------------- catalog (app.py) -------------------------- *)

Gone == [exists |-> FALSE, stock |-> 0, price |-> 0, name |-> "", image |-> ""]

\* delete_product: the row goes, unless an OrderItem still points at it
\* (order_item.product_id is NOT NULL and the delete fails)
delete_product(p) ==
    /\ catalog[p].exists
    /\ \A o \in OrderIds : ~Touches(orders[o], p)
    /\ catalog' = [catalog EXCEPT ![p] = Gone]
    /\ UNCHANGED <<cart, tx, orders, tracking, now, settings>>

\* a variant of edit_product that also rewrites the items of the orders
\* which hold the product
edit_product_and_items(p, name, price, stock, image) ==
    /\ catalog[p].exists
    /\ catalog' = [catalog EXCEPT ![p] =
            [exists |-> TRUE, stock |-> stock, price |-> price, name |-> name,
             image |-> IF image = NoUpload THEN catalog[p].image ELSE image]]
    /\ orders' = [o \in OrderIds |->
            [orders[o] EXCEPT !.items =
                [i \in 1..Len(orders[o].items) |->
                    IF orders[o].items[i].pid = p
                    THEN [orders[o].items[i] EXCEPT !.price = price,
                                                    !.product_name = name]
                    ELSE orders[o].items[i]]]]
    /\ UNCHANGED <<cart, tx, tracking, now, settings>>

\* edit_product (POST) by an admin: the validated form overwrites name,
\* price and stock, and the image when a file is uploaded
edit_product(p, name, price, stock, image) ==
    /\ catalog[p].exists
    /\ catalog' = [catalog EXCEPT ![p] =
            [exists |-> TRUE, stock |-> stock, price |-> price, name |-> name,
             image |-> IF image = NoUpload THEN catalog[p].image ELSE image]]
    /\ UNCHANGED <<cart, tx, orders, tracking, now, settings>>

\* what the settings form posts: float() takes any number
FeeInputs == {0, 1000, 1500}
ThresholdInputs == {0, 2, 3}

\* admin_settings (POST) by an admin: both numbers are stored as posted
admin_settings(delivery_fee, free_delivery_threshold) ==
    /\ settings' = [delivery_fee |-> delivery_fee,
                    free_delivery_threshold |-> free_delivery_threshold]
    /\ UNCHANGED <<catalog, cart, tx, orders, tracking, now>>

\* time passes
Tick ==
    /\ now < MaxNow
    /\ now' = now + 1
    /\ UNCHANGED <<catalog, cart, tx, orders, tracking, settings>>

(* ----------------------------- specification --------------------------- *)

Init ==
    /\ catalog = [p \in Products |->
            [exists |-> TRUE, stock |-> InitStock, price |-> ProductPrice[p],
             name |-> ProductName[p], image |-> ProductImage[p]]]
    /\ cart = [s \in Shoppers |-> <<>>]
    /\ tx = [s \in Shoppers |-> Idle]
    /\ orders = <<>>
    /\ tracking = <<>>
    /\ now = 0
    /\ settings = InitSettings

\* the requests of the shoppers S about the products P
ShopNext(S, P) ==
    \/ \E s \in S, p \in P, q \in QtyInputs : add_to_cart(s, p, q)
    \/ \E s \in S, p \in P, q \in QtyInputs : update_cart(s, p, q)
    \/ \E s \in S, p \in P : remove_from_cart(s, p)
    \/ \E s \in S : clear_cart(s)
    \/ \E s \in S : CheckoutBegin(s)
    \/ \E s \in S : CheckoutLine(s)
    \/ \E s \in S : CheckoutCommit(s)
    \/ \E s \in S : CheckoutFails(s)
    \/ \E s \in S, m \in MailOutcomes : send_order_notifications(s, m)
    \/ \E s \in S, o \in 1..MaxOrders : cancel_order(s, o)
    \/ \E p \in P : delete_product(p)

\* a variant of admin_required: any logged-in user passes
login_required(u) == u \in Users

\* "if not current_user.is_admin: abort(403)" at the head of every admin route
admin_required(u) == is_admin[u]

\* the order routes under /admin as requested by user u
AdminOrders(u) ==
    \/ \E o \in 1..MaxOrders, st \in FormStatuses :
            admin_required(u) /\ update_order_status(o, st)
    \/ \E o \in 1..MaxOrders, st \in FormStatuses \cup {NoStatus}, d \in BOOLEAN :
            admin_required(u) /\ update_tracking(o, st, d)
    \/ \E ids \in SUBSET (1..MaxOrders), st \in FormStatuses :
            admin_required(u) /\ bulk_tracking_update(ids, st)

\* the requests of every user to the order routes under /admin
AdminNext == \E u \in Users : AdminOrders(u)

Next == ShopNext(Shoppers, Products) \/ AdminNext \/ Tick

\* the whole store
Spec == Init /\ [][Next]_vars

\* the shop floor: every shopper and product, the orders as the customers
\* see them (placed, cancelled) at one instant
SpecShop == Init /\ [][ShopNext(Shoppers, Products)]_vars

\* checkout of the first order only
FirstCheckout(s) == orders = <<>> /\ CheckoutBegin(s)

\* the life of one order: one shopper buys one product once; the customer,
\* the admin and the clock then act on that order
OrdersNext ==
    \/ \E q \in QtyInputs : add_to_cart("s1", 1, q)
    \/ FirstCheckout("s1")
    \/ CheckoutLine("s1")
    \/ CheckoutCommit("s1")
    \/ CheckoutFails("s1")
    \/ \E m \in MailOutcomes : send_order_notifications("s1", m)
    \/ \E o \in 1..MaxOrders : cancel_order("s1", o)
    \/ AdminNext
    \/ Tick

SpecOrders == Init /\ [][OrdersNext]_vars

\* the product routes under /admin as requested by user u, about products P
AdminCatalog(u, P) ==
    \/ \E p \in P, name \in Names, price \in Prices, stock \in EditStocks,
          image \in Images \cup {NoUpload} :
            admin_required(u) /\ edit_product(p, name, price, stock, image)
    \/ \E p \in P : admin_required(u) /\ delete_product(p)

\* the life of one product: one shopper puts it in the cart, buys it and
\* cancels while the users request the product routes under /admin
CatalogNext ==
    \/ ShopNext({"s1"}, {1})
    \/ \E u \in Users : AdminCatalog(u, {1})

SpecCatalog == Init /\ [][CatalogNext]_vars

(* ------------------------- the Cart class alone ------------------------ *)

\* quantities given to Cart.add and Cart.update: the methods take any integer
CartInputs == -1..MaxAdd

LineInRange(c) == \A i \in 1..Len(c) : c[i].quantity \in -MaxLine..MaxLine

\* Cart.add called on the session cart of s
Cart_add(s, pid, quantity, price, name, image) ==
    /\ cart' = [cart EXCEPT ![s] = CartAdd(@, pid, quantity, price, name, image)]
    /\ LineInRange(cart'[s])
    /\ UNCHANGED <<catalog, tx, orders, tracking, now, settings>>

\* Cart.update called on the session cart of s
Cart_update(s, pid, quantity) ==
    /\ cart' = [cart EXCEPT ![s] = CartUpdate(@, pid, quantity)]
    /\ UNCHANGED <<catalog, tx, orders, tracking, now, settings>>

\* Cart.remove called on the session cart of s
Cart_remove(s, pid) ==
    /\ cart' = [cart EXCEPT ![s] = CartRemove(@, pid)]
    /\ UNCHANGED <<catalog, tx, orders, tracking, now, settings>>

\* Cart.clear called on the session cart of s
Cart_clear(s) ==
    /\ cart' = [cart EXCEPT ![s] = <<>>]
    /\ UNCHANGED <<catalog, tx, orders, tracking, now, settings>>

\* any sequence of calls of the Cart methods on one session
CartNext ==
    \/ \E pid \in Products, quantity \in CartInputs, price \in Prices,
          name \in Names, image \in Images :
            Cart_add("s1", pid, quantity, price, name, image)
    \/ \E pid \in Products, quantity \in CartInputs : Cart_update("s1", pid, quantity)
    \/ \E pid \in Products : Cart_remove("s1", pid)
    \/ Cart_clear("s1")

SpecCart == Init /\ [][CartNext]_vars

(* ------------------------ sessions with a damaged cart ------------------- *)

\* what session['cart'] can hold for product pid: a full entry, an entry
\* without 'quantity', one without 'price', or a value that is not a dict
RawLines(pid) ==
    {[pid |-> pid, quantity |-> q, price |-> price, name |-> "shirt", image |-> "shirt.png"] :
        q \in QtyInputs, price \in Prices}
    \cup {[pid |-> pid, price |-> price, name |-> "shirt", image |-> "shirt.png"] :
        price \in Prices}
    \cup {[pid |-> pid, quantity |-> q, name |-> "shirt", image |-> "shirt.png"] :
        q \in QtyInputs}
    \cup {[pid |-> pid, scalar |-> 0]}

\* the carts of at most one entry per product
RawCarts ==
    {<<>>}
    \cup {<<line>> : line \in UNION {RawLines(pid) : pid \in Products}}
    \cup UNION {{<<l1, l2>> : l1 \in RawLines(pp[1]), l2 \in RawLines(pp[2])} :
                pp \in {qq \in Products \X Products : qq[1] # qq[2]}}

\* before_request: every request builds a Cart, whose constructor runs
\* _clean_cart and writes the session back
before_request(s) ==
    /\ cart' = [cart EXCEPT ![s] = _clean_cart(@)]
    /\ UNCHANGED <<catalog, tx, orders, tracking, now, settings>>

\* GET /cart: the Cart is built, then the page reads item['quantity'] and
\* item['price'] of every entry whose product exists; a missing key raises
\* KeyError and the request fails
view_cart_request(s) ==
    /\ LET c == _clean_cart(cart[s]) IN
          \A i \in 1..Len(c) :
              catalog[c[i].pid].exists => {"quantity", "price"} \subseteq DOMAIN c[i]
    /\ cart' = [cart EXCEPT ![s] = _clean_cart(@)]
    /\ UNCHANGED <<catalog, tx, orders, tracking, now, settings>>

\* a session arrives with any cart
InitSession ==
    /\ catalog = [p \in Products |->
            [exists |-> TRUE, stock |-> InitStock, price |-> ProductPrice[p],
             name |-> ProductName[p], image |-> ProductImage[p]]]
    /\ cart \in {[s \in Shoppers |-> IF s = "s1" THEN c ELSE <<>>] : c \in RawCarts}
    /\ tx = [s \in Shoppers |-> Idle]
    /\ orders = <<>>
    /\ tracking = <<>>
    /\ now = 0
    /\ settings = InitSettings

SessionNext ==
    \/ before_request("s1")
    \/ view_cart_request("s1")

SpecSession == InitSession /\ [][SessionNext]_vars

(* --------------------------- the cart routes alone ---------------------- *)

\* the shoppers fill and empty their carts; nobody buys, the stock of every
\* product stays what it is
CartRoutesNext ==
    \/ \E s \in Shoppers, p \in Products, q \in QtyInputs :
            add_to_cart_upto(s, p, q, MaxLine)
    \/ \E s \in Shoppers, p \in Products, q \in QtyInputs : update_cart(s, p, q)
    \/ \E s \in Shoppers, p \in Products : remove_from_cart(s, p)
    \/ \E s \in Shoppers : clear_cart(s)

SpecCartRoutes == Init /\ [][CartRoutesNext]_vars

(* -------------------------------- pricing ------------------------------ *)

\* the settings route under /admin as requested by user u
AdminSettings(u) ==
    \E delivery_fee \in FeeInputs, free_delivery_threshold \in ThresholdInputs :
        admin_required(u) /\ admin_settings(delivery_fee, free_delivery_threshold)

\* edit_product as requested by user u with the form as the page fills it
\* in, only the price changed (a stock of 0 does not pass DataRequired)
Reprice(u) ==
    \E p \in Products, price \in Prices :
        /\ admin_required(u)
        /\ catalog[p].stock \in EditStocks
        /\ edit_product(p, catalog[p].name, price, catalog[p].stock, NoUpload)

\* one shopper fills the cart and checks out once while the users request
\* the settings route and change prices
PricingNext ==
    \/ \E p \in Products, q \in QtyInputs : add_to_cart("s1", p, q)
    \/ \E p \in Products, q \in QtyInputs : update_cart("s1", p, q)
    \/ FirstCheckout("s1")
    \/ CheckoutLine("s1")
    \/ CheckoutCommit("s1")
    \/ CheckoutFails("s1")
    \/ \E m \in MailOutcomes : send_order_notifications("s1", m)
    \/ \E u \in Users : AdminSettings(u)
    \/ \E u \in Users : Reprice(u)

SpecPricing == Init /\ [][PricingNext]_vars

(* ------------------------ steps of a checkout -------------------------- *)

\* the transaction of the checkout request of s ends in this step
Ends(s) == InFlight(s) /\ tx'[s].pc # "lines"

\* ... with an order placed
Placed(s) == Ends(s) /\ Len(orders') = Len(orders) + 1

\* nothing of the database or of the cart of s changes in this step
NothingPersisted(s) ==
    /\ orders' = orders
    /\ tracking' = tracking
    /\ catalog' = catalog
    /\ cart'[s] = cart[s]

\* product, quantity and price of the cart lines or order items c
AsItems(c) ==
    [i \in 1..Len(c) |->
        [pid |-> c[i].pid, quantity |-> c[i].quantity, price |-> c[i].price]]

FirstTrack == << Track("pending", "system") >>

(* ------------------------------- claims -------------------------------- *)

\* C1 (as claimed): of two concurrent checkouts that each ask for the last
\* unit of a product whose stock is 1, only one succeeds. Once another
\* shopper's order has taken that unit (the stock is now 0), a checkout
\* that is still running and had read the unit as available (it asks for 1
\* and is about to write stock 0) is not placed.
C1_LastUnitOnce ==
    [][\A t \in Shoppers, p \in Products :
         ( /\ InFlight(t)
           /\ Touches(tx[t], p)
           /\ UnitsOf(tx[t].items, p) = 1
           /\ DirtyStock(tx[t], p) = 0
           /\ catalog[p].exists
           /\ catalog[p].stock = 0
           /\ \E o \in OrderIds :
                 /\ orders[o].user # t
                 /\ orders[o].status = "pending"
                 /\ UnitsOf(orders[o].items, p) = 1 )
         => ~Placed(t)
      ]_vars

\* C2 (as claimed): the stock of every product is never negative.
C2_StockNonNegative == \A p \in Products : catalog[p].stock >= 0

\* C3 (as claimed): a checkout that returns while one of its cart lines asks
\* for more than the product's current stock creates no order and changes
\* no stock.
C3_Revalidated ==
    [][\A s \in Shoppers :
         ( /\ Ends(s)
           /\ \E i \in 1..Len(cart[s]) :
                 /\ catalog[cart[s][i].pid].exists
                 /\ cart[s][i].quantity > catalog[cart[s][i].pid].stock )
         => (orders' = orders /\ catalog' = catalog)
      ]_vars

\* C4: checkout is all-or-nothing. The steps of a checkout that has not
\* returned persist nothing; the step in which it returns either persists
\* nothing and keeps the cart, or commits together the order with one item
\* per cart line, the first tracking event, the stock written for every
\* line's product (and no other) and the emptied cart.
C4_AllOrNothing ==
    [][\A s \in Shoppers :
         (tx'[s] # tx[s]) =>
            \/ ~Ends(s) /\ NothingPersisted(s)
            \/ Ends(s) /\ NothingPersisted(s)
            \/ /\ Ends(s)
               /\ Len(orders') = Len(orders) + 1
               /\ SubSeq(orders', 1, Len(orders)) = orders
               /\ AsItems(orders'[Len(orders')].items) = AsItems(cart[s])
               /\ tracking' = Append(tracking, FirstTrack)
               /\ \A p \in Products :
                     IF Touches(tx[s], p)
                     THEN catalog'[p] = [catalog[p] EXCEPT !.stock = DirtyStock(tx[s], p)]
                     ELSE catalog'[p] = catalog[p]
               /\ \A i \in 1..Len(cart[s]) : Touches(tx[s], cart[s][i].pid)
               /\ cart'[s] = <<>>
      ]_vars

\* C4 witness: a checkout has processed its first line (an order item and a
\* stock write are pending in its transaction) and the product of its next
\* line no longer exists, so that it fails partway.
C4_Witness ==
    \E s \in Shoppers :
        /\ InFlight(s)
        /\ Len(tx[s].items) >= 1
        /\ tx[s].idx <= Len(cart[s])
        /\ ~catalog[cart[s][tx[s].idx].pid].exists
        /\ tx[s].dirty[1] # catalog[tx[s].items[1].pid].stock

\* C5 (as claimed): a checkout that succeeds creates one pending order with
\* one item per cart line, takes exactly each line's quantity off the stock
\* of its product, appends the first tracking event and empties the cart.
C5_CheckoutEffect ==
    [][\A s \in Shoppers :
         Placed(s) =>
            /\ orders'[Len(orders')].status = "pending"
            /\ orders'[Len(orders')].user = s
            /\ AsItems(orders'[Len(orders')].items) = AsItems(cart[s])
            /\ \A p \in Products :
                  catalog'[p].stock = catalog[p].stock - UnitsOf(cart[s], p)
            /\ tracking' = Append(tracking, FirstTrack)
            /\ cart'[s] = <<>>
      ]_vars

(* --------------------------- claims on orders -------------------------- *)

\* the stock of every product is what it was plus the units of order o
Restored(o) ==
    \A p \in Products :
        catalog'[p].stock = catalog[p].stock + UnitsOf(orders[o].items, p)

\* C6 (as claimed): whenever an order becomes cancelled, by whatever route,
\* the same step gives every item's quantity back to the stock.
C6_CancelRestores ==
    [][\A o \in OrderIds :
         (orders[o].status # "cancelled" /\ orders'[o].status = "cancelled")
         => Restored(o)
      ]_vars

\* C7 (as claimed): delivered and cancelled are terminal, no step changes
\* the status of an order that has reached one of them.
C7_Terminal ==
    [][\A o \in OrderIds :
         orders[o].status \in {"delivered", "cancelled"}
         => orders'[o].status = orders[o].status
      ]_vars

\* C8 (as claimed): no step takes an order from shipped or delivered to
\* cancelled.
C8_NoLateCancel ==
    [][\A o \in OrderIds :
         orders[o].status \in {"shipped", "delivered"}
         => orders'[o].status # "cancelled"
      ]_vars

\* the tracking log of o has room for one more event (the model's bound)
Room(o) == Len(tracking[o]) < MaxTrack

\* C9: for a processing order, the owner's cancel_order takes effect exactly
\* when less than one hour has passed since placement, and then the order
\* is cancelled and its stock restored; from one hour on the request
\* changes nothing. The admin's update to cancelled takes effect whatever
\* the time.
C9_ProcessingWindow ==
    \A o \in OrderIds :
        (orders[o].status = "processing" /\ Room(o)) =>
            /\ Elapsed(o) < CancelWindow =>
                  /\ ENABLED (/\ cancel_order(orders[o].user, o)
                              /\ orders'[o].status = "cancelled"
                              /\ Restored(o))
                  /\ ~ ENABLED (/\ cancel_order(orders[o].user, o)
                                /\ ~(orders'[o].status = "cancelled" /\ Restored(o)))
            /\ Elapsed(o) >= CancelWindow =>
                  ~ ENABLED cancel_order(orders[o].user, o)
            /\ ENABLED (/\ update_order_status(o, "cancelled")
                        /\ orders'[o].status = "cancelled")
            /\ ~ ENABLED (/\ update_order_status(o, "cancelled")
                          /\ orders'[o].status # "cancelled")

\* C9 witness: an order that the admin had moved to processing was
\* cancelled by its customer, 30 minutes after placement at the latest, and
\* the unit is back in stock.
C9_Witness ==
    \E o \in OrderIds :
        /\ tracking[o] = << Track("pending", "system"),
                            Track("processing", "admin"),
                            Track("cancelled", "customer") >>
        /\ orders[o].status = "cancelled"
        /\ Elapsed(o) = TickSeconds
        /\ UnitsOf(orders[o].items, 1) >= 1
        /\ catalog[1].stock = InitStock

\* C10: for a pending order, at any time after placement, the owner's
\* cancel_order and the admin's update to cancelled both take effect and
\* leave the order cancelled.
C10_PendingCancel ==
    \A o \in OrderIds :
        (orders[o].status = "pending" /\ Room(o)) =>
            /\ ENABLED (/\ cancel_order(orders[o].user, o)
                        /\ orders'[o].status = "cancelled")
            /\ ~ ENABLED (/\ cancel_order(orders[o].user, o)
                          /\ orders'[o].status # "cancelled")
            /\ ENABLED (/\ update_order_status(o, "cancelled")
                        /\ orders'[o].status = "cancelled")
            /\ ~ ENABLED (/\ update_order_status(o, "cancelled")
                          /\ orders'[o].status # "cancelled")

\* C10 witness: a pending order one hour after its placement, when a
\* processing order could no longer be cancelled by its customer
C10_Witness ==
    \E o \in OrderIds :
        /\ orders[o].status = "pending"
        /\ Room(o)
        /\ Elapsed(o) >= CancelWindow

\* C11: a cancel_order request that the route refuses (the order is
\* shipped, delivered or already cancelled, or is processing and was placed
\* an hour ago or more) changes nothing: the status of every order, the
\* stock of every product and the tracking logs stay as they were.
C11_RefusedChangesNothing ==
    \A s \in Shoppers, o \in OrderIds :
        ( /\ orders[o].user = s
          /\ Room(o)
          /\ \/ orders[o].status \in {"shipped", "delivered", "cancelled"}
             \/ orders[o].status = "processing" /\ Elapsed(o) >= CancelWindow )
        => ~ ENABLED (/\ cancel_order(s, o)
                      /\ <<orders, catalog, tracking>>' # <<orders, catalog, tracking>>)

\* C11 witness: the admin has shipped an order; its customer's unit is
\* still off the stock and the log has room for a cancellation event
C11_Witness ==
    \E o \in OrderIds :
        /\ orders[o].status = "shipped"
        /\ tracking[o] = << Track("pending", "system"), Track("shipped", "admin") >>
        /\ UnitsOf(orders[o].items, 1) = 1
        /\ catalog[1].stock = InitStock - 1

\* C12 (as claimed): every step that gives an order a status, the first
\* one at checkout or a new one later, appends to the order's tracking log
\* one event carrying that status and the actor (system, admin or customer).
C12_StatusTracked ==
    [][\A o \in 1..Len(orders') :
         (o \notin OrderIds \/ orders'[o].status # orders[o].status)
         => LET before == IF o \in OrderIds THEN tracking[o] ELSE <<>>
                last == tracking'[o][Len(tracking'[o])]
            IN /\ Len(tracking'[o]) = Len(before) + 1
               /\ SubSeq(tracking'[o], 1, Len(before)) = before
               /\ last.status = orders'[o].status
               /\ last.updated_by \in {"system", "admin", "customer"}
      ]_vars

\* C13: only an admin moves an order forward. In every state, a request of
\* a user who is not an admin to the order routes under /admin changes no
\* order; the shop routes of any user change the status of an existing
\* order to cancelled or not at all; and the admin's update_order_status
\* takes an order from whatever status it has to any valid status, without
\* passing through the statuses in between.
C13_ForwardByAdminOnly ==
    /\ \A u \in Users :
          ~is_admin[u] => ~ ENABLED (AdminOrders(u) /\ orders' # orders)
    /\ \A u \in Shoppers :
          ~ ENABLED (/\ ShopNext({u}, Products)
                     /\ \E o \in OrderIds :
                           orders'[o].status \notin {orders[o].status, "cancelled"})
    /\ \A u \in Users, o \in OrderIds, status \in valid_statuses :
          (is_admin[u] /\ Room(o)) =>
              /\ ENABLED (/\ admin_required(u)
                          /\ update_order_status(o, status)
                          /\ orders'[o].status = status)
              /\ ~ ENABLED (/\ admin_required(u)
                            /\ update_order_status(o, status)
                            /\ orders'[o].status # status)

\* C13 witness: the admin has taken a pending order straight to delivered
C13_Witness ==
    \E o \in OrderIds :
        /\ orders[o].status = "delivered"
        /\ tracking[o] = << Track("pending", "system"), Track("delivered", "admin") >>

(* --------------------------- claims on products ------------------------ *)

\* C14 (as claimed): the price put on an order item is the catalog price of
\* its product at the moment checkout creates the item, whatever the price
\* was when the product went into the cart.
C14_PriceAtPurchase ==
    [][\A s \in Shoppers :
         (InFlight(s) /\ Len(tx'[s].items) = Len(tx[s].items) + 1)
         => LET item == tx'[s].items[Len(tx'[s].items)]
            IN item.price = catalog[item.pid].price
      ]_vars

\* C15: no step changes the items of an order that exists: their product,
\* quantity, price, name and image stay what checkout recorded, and no
\* order disappears.
C15_ItemsFrozen ==
    [][/\ Len(orders') >= Len(orders)
       /\ \A o \in OrderIds : orders'[o].items = orders[o].items
      ]_vars

\* C15 witness: an order holds an item whose price, name and image are no
\* longer those of its product, which was edited after the order was placed
C15_Witness ==
    \E o \in OrderIds : \E i \in 1..Len(orders[o].items) :
        LET item == orders[o].items[i] IN
        /\ catalog[item.pid].exists
        /\ item.price # catalog[item.pid].price
        /\ item.product_name # catalog[item.pid].name
        /\ item.product_image # catalog[item.pid].image

(* ---------------------------- claims on carts --------------------------- *)

\* C16: a checkout requested with a cart that holds no unit (no line, or
\* only lines of quantity 0) opens no transaction and changes no order, no
\* tracking log, no stock and no cart.
C16_EmptyCartRefused ==
    \A s \in Shoppers :
        (Resting(s) /\ \A i \in 1..Len(cart[s]) : cart[s][i].quantity = 0)
        => ~ ENABLED (/\ CheckoutBegin(s)
                      /\ \/ tx'[s] # Idle
                         \/ <<orders, tracking, catalog, cart>>'
                               # <<orders, tracking, catalog, cart>>)

\* C16 witness: a shopper whose cart has a line, of quantity 0, is free to
\* request a checkout while the other shopper has units in the cart
C16_Witness ==
    \E s, t \in Shoppers :
        /\ Resting(s)
        /\ cart[s] # <<>>
        /\ \A i \in 1..Len(cart[s]) : cart[s][i].quantity = 0
        /\ get_total_items(cart[t]) > 0

\* C17: the order-placed e-mails are sent only once the checkout has
\* committed, and their outcome changes nothing. The step that takes a
\* checkout to the sending of the e-mails is the one that commits its order
\* and empties its cart; the step that ends the sending, whether the
\* e-mails went out, failed or raised, ends the request and leaves the
\* orders, the stock, the tracking logs and the carts as committed.
C17_NotifyAfterCommit ==
    [][\A s \in Shoppers :
         /\ (tx[s].pc # "notify" /\ tx'[s].pc = "notify") =>
                /\ Placed(s)
                /\ tx'[s].order_id = Len(orders')
                /\ orders'[Len(orders')].user = s
                /\ cart'[s] = <<>>
         /\ (tx[s].pc = "notify" /\ tx'[s] # tx[s]) =>
                /\ tx'[s] = Idle
                /\ orders' = orders
                /\ catalog' = catalog
                /\ tracking' = tracking
                /\ cart' = cart
      ]_vars

\* C17 witness: a checkout has gone through the sending of its e-mails and
\* returned; its order stands, the unit is off the stock and the cart is
\* empty
C17_Witness ==
    \E s \in Shoppers, o \in OrderIds :
        /\ Resting(s)
        /\ orders[o].user = s
        /\ orders[o].status = "pending"
        /\ cart[s] = <<>>
        /\ \E p \in Products :
              /\ UnitsOf(orders[o].items, p) = 1
              /\ catalog[p].stock = InitStock - 1

\* C18 (as claimed): every line of every cart has a quantity of 1 or more.
C18_QuantityPositive ==
    \A s \in Shoppers : \A i \in 1..Len(cart[s]) : cart[s][i].quantity >= 1

\* the lines of cart c for product pid, and the others
LinesOf(c, pid) == SelectSeq(c, LAMBDA line : line.pid = pid)
LinesNotOf(c, pid) == SelectSeq(c, LAMBDA line : line.pid # pid)

\* C19: on every cart the Cart methods produce, add(pid, q1) followed by
\* add(pid, q2) leaves exactly one line for pid; its quantity is what the
\* cart held for pid (0 when it held none) plus q1 + q2; its price, name
\* and image are those of the line the cart held, or those of the first add
\* when it held none; the lines of the other products are untouched.
C19_AddTwice ==
    \A pid \in Products, q1 \in CartInputs, q2 \in CartInputs,
       price1 \in Prices, price2 \in Prices, name1 \in Names, name2 \in Names,
       image1 \in Images, image2 \in Images :
        LET c == cart["s1"]
            c2 == CartAdd(CartAdd(c, pid, q1, price1, name1, image1),
                          pid, q2, price2, name2, image2)
            held == LinesOf(c, pid)
            line == LinesOf(c2, pid)
        IN /\ Len(line) = 1
           /\ line[1].quantity = (IF held = <<>> THEN 0 ELSE held[1].quantity) + q1 + q2
           /\ line[1].price = (IF held = <<>> THEN price1 ELSE held[1].price)
           /\ line[1].name = (IF held = <<>> THEN name1 ELSE held[1].name)
           /\ line[1].image = (IF held = <<>> THEN image1 ELSE held[1].image)
           /\ LinesNotOf(c2, pid) = LinesNotOf(c, pid)

\* C19 witness: a line has more units than one add gives, so that several
\* adds went into it, next to a line of another product
C19_Witness ==
    /\ Len(cart["s1"]) = 2
    /\ cart["s1"][1].quantity > MaxAdd
    /\ cart["s1"][1].price # cart["s1"][2].price

\* C20: on every cart the Cart methods produce, update(pid, q) of a product
\* the cart holds sets the quantity of its line to q and changes nothing
\* else when q > 0, and removes the line, keeping the others in their
\* order, when q <= 0; update(pid, q) of a product the cart does not hold
\* returns the cart as it was.
C20_Update ==
    \A pid \in Products, q \in CartInputs :
        LET c == cart["s1"]
            c1 == CartUpdate(c, pid, q)
        IN IF LinesOf(c, pid) = <<>>
           THEN c1 = c
           ELSE IF q > 0
                THEN /\ Len(c1) = Len(c)
                     /\ \A i \in 1..Len(c) :
                           IF c[i].pid = pid
                           THEN c1[i] = [c[i] EXCEPT !.quantity = q]
                           ELSE c1[i] = c[i]
                ELSE /\ LinesOf(c1, pid) = <<>>
                     /\ c1 = LinesNotOf(c, pid)

\* C20 witness: the cart holds a line of several units for one product and
\* none for the other, so that an update meets both a held and an absent
\* product
C20_Witness ==
    /\ Len(cart["s1"]) = 1
    /\ cart["s1"][1].quantity = MaxAdd
    /\ \E pid \in Products : LinesOf(cart["s1"], pid) = <<>>

\* the quantity cart c holds for product pid, 0 when it has no line for it
QtyOf(c, pid) == IF LinesOf(c, pid) = <<>> THEN 0 ELSE LinesOf(c, pid)[1].quantity

\* the sum of f[x] over the x of S
RECURSIVE SumOf(_, _)
SumOf(f, S) ==
    IF S = {} THEN 0
    ELSE LET x == CHOOSE x \in S : TRUE IN f[x] + SumOf(f, S \ {x})

\* C21: on every cart the Cart methods produce, get_total_items() is the
\* sum, over the products, of the quantity of the line the cart holds for
\* the product; a line that remove, or update to 0 or less, takes away no
\* longer counts, and a cleared cart counts 0.
C21_TotalItems ==
    LET c == cart["s1"] IN
    /\ get_total_items(c) = SumOf([pid \in Products |-> QtyOf(c, pid)], Products)
    /\ get_total_items(<<>>) = 0
    /\ \A pid \in Products :
          /\ get_total_items(CartRemove(c, pid)) = get_total_items(c) - QtyOf(c, pid)
          /\ \A q \in CartInputs :
                q <= 0 => get_total_items(CartUpdate(c, pid, q))
                            = get_total_items(c) - QtyOf(c, pid)

\* C21 witness: a cart of two lines, one of them with the most units a
\* line reaches and one with a negative quantity
C21_Witness ==
    /\ Len(cart["s1"]) = 2
    /\ cart["s1"][1].quantity = MaxLine
    /\ cart["s1"][2].quantity < 0

\* price times quantity of the line cart c holds for pid, 0 without a line
AmountOf(c, pid) ==
    IF LinesOf(c, pid) = <<>> THEN 0
    ELSE LinesOf(c, pid)[1].price * LinesOf(c, pid)[1].quantity

\* the cart {A: 2 at 500, B: 1 at 1000}
TwoLineCart ==
    << [pid |-> 1, quantity |-> 2, price |-> 500, name |-> "shirt", image |-> "shirt.png"],
       [pid |-> 2, quantity |-> 1, price |-> 1000, name |-> "polo", image |-> "polo.png"] >>

\* C22: on every cart the Cart methods produce, get_subtotal() is the sum,
\* over the products, of price times quantity of the cart's line; the price
\* is the one of the add that created the line, also after a further add
\* at another price; the empty cart gives 0 and the cart of 2 at 500 and
\* 1 at 1000 gives 2000.
C22_Subtotal ==
    LET c == cart["s1"] IN
    /\ get_subtotal(c) = SumOf([pid \in Products |-> AmountOf(c, pid)], Products)
    /\ get_subtotal(<<>>) = 0
    /\ get_subtotal(TwoLineCart) = 2000
    /\ \A pid \in Products, q \in CartInputs, price \in Prices :
          LET held == LinesOf(c, pid)
              unit == IF held = <<>> THEN price ELSE held[1].price
          IN get_subtotal(CartAdd(c, pid, q, price, "polo", "polo.png"))
               = get_subtotal(c) + unit * q

\* C22 witness: a cart of two lines with different prices and several units
C22_Witness ==
    /\ Len(cart["s1"]) = 2
    /\ cart["s1"][1].price # cart["s1"][2].price
    /\ cart["s1"][1].quantity >= 2
    /\ cart["s1"][2].quantity >= 2

(* --------------------------- claims on pricing -------------------------- *)

\* C23: the checkout that opens an order prices it from the cart and the
\* settings of that moment: the delivery fee is 0 when the threshold is
\* positive and the subtotal reaches it, a subtotal equal to the threshold
\* included, and the flat fee of the settings otherwise; the total is the
\* subtotal plus that fee.
C23_DeliveryFeeRule ==
    [][\A s \in Shoppers :
         (Resting(s) /\ tx'[s].pc = "lines") =>
            LET subtotal == SumOf([pid \in Products |-> AmountOf(cart[s], pid)], Products)
                threshold == settings.free_delivery_threshold
            IN /\ tx'[s].subtotal = subtotal
               /\ (threshold > 0 /\ subtotal >= threshold) => tx'[s].delivery_fee = 0
               /\ ~(threshold > 0 /\ subtotal >= threshold)
                     => tx'[s].delivery_fee = settings.delivery_fee
               /\ tx'[s].total_amount = subtotal + tx'[s].delivery_fee
      ]_vars

\* C23 witness: a checkout has opened an order whose subtotal is exactly the
\* positive threshold of the settings, priced with a delivery fee of 0
\* while the flat fee is not 0
C23_Witness ==
    \E s \in Shoppers :
        /\ InFlight(s)
        /\ tx[s].idx = 1
        /\ settings.free_delivery_threshold > 0
        /\ tx[s].subtotal = settings.free_delivery_threshold
        /\ settings.delivery_fee > 0
        /\ tx[s].delivery_fee = 0
        /\ tx[s].total_amount = tx[s].subtotal

\* C24: while the free_delivery_threshold of the settings is 0, the rule
\* gives the flat fee of the settings for every subtotal from 0 up, and the
\* cart page shows the flat fee whatever the cart holds.
C24_ZeroThresholdDisabled ==
    settings.free_delivery_threshold = 0 =>
        /\ \A subtotal \in 0..MaxSubtotal :
              DeliveryFee(subtotal, settings) = settings.delivery_fee
        /\ \A s \in Shoppers :
              /\ view_cart(s).delivery_fee = settings.delivery_fee
              /\ view_cart(s).total = view_cart(s).subtotal + settings.delivery_fee

\* C24 witness: the threshold is 0, the admin has changed the flat fee and
\* the cart holds both products
C24_Witness ==
    /\ settings.free_delivery_threshold = 0
    /\ settings.delivery_fee \notin {0, InitSettings.delivery_fee}
    /\ Len(cart["s1"]) = 2
    /\ view_cart("s1").subtotal >= 3

\* C26 (as claimed): for the cart and the settings of every state,
\* Cart.get_total() is the subtotal of the cart plus the delivery fee that
\* the rule of view_cart and checkout gives for that subtotal.
C26_TotalFromSettings ==
    \A s \in Shoppers :
        get_total(cart[s])
          = get_subtotal(cart[s]) + DeliveryFee(get_subtotal(cart[s]), settings)

(* ------------------------ claims on the order book ---------------------- *)

\* C27 (as claimed): the status of every order is one of pending,
\* processing, shipped, delivered and cancelled.
C27_StatusValid ==
    \A o \in OrderIds : orders[o].status \in valid_statuses

\* units of product p on the orders that are not cancelled
ActiveUnits(p) ==
    SumOf([o \in OrderIds |->
              IF orders[o].status = "cancelled" THEN 0
              ELSE UnitsOf(orders[o].items, p)],
          OrderIds)

\* C28 (as claimed): with no product edited, the stock of every product
\* plus its units on the orders that are not cancelled is the stock the
\* product started with.
C28_StockConserved ==
    \A p \in Products :
        catalog[p].exists => catalog[p].stock + ActiveUnits(p) = InitStock

\* price times quantity summed over the order items
RECURSIVE ItemsAmount(_)
ItemsAmount(items) ==
    IF items = <<>> THEN 0
    ELSE Head(items).price * Head(items).quantity + ItemsAmount(Tail(items))

\* C29: every stored order has total_amount = subtotal + delivery_fee and
\* subtotal = the sum over its items of price times quantity.
C29_OrderArithmetic ==
    \A o \in OrderIds :
        /\ orders[o].total_amount = orders[o].subtotal + orders[o].delivery_fee
        /\ orders[o].subtotal = ItemsAmount(orders[o].items)

\* C29 witness: an order of two items at different prices, placed after the
\* admin had changed the flat fee, and a product whose price has changed
\* since
C29_Witness ==
    \E o \in OrderIds :
        /\ Len(orders[o].items) = 2
        /\ orders[o].items[1].price # orders[o].items[2].price
        /\ orders[o].delivery_fee \notin {0, InitSettings.delivery_fee}
        /\ \E i \in 1..2 :
              orders[o].items[i].price # catalog[orders[o].items[i].pid].price

(* ------------------------ claims on the cart routes --------------------- *)

\* C30 (as claimed): while the stock does not change, no sequence of
\* add_to_cart and update_cart requests leaves in a cart more units of a
\* product than the product has in stock.
C30_CartWithinStock ==
    \A s \in Shoppers : \A i \in 1..Len(cart[s]) :
        cart[s][i].quantity <= catalog[cart[s][i].pid].stock

(* ------------------------- claims on damaged carts ----------------------- *)

\* C25 (as claimed): whatever the session cart holds, after the pass of
\* _clean_cart every entry left is a dict with both 'quantity' and 'price',
\* and the cart page can be served.
C25_CleanCart ==
    \A s \in Shoppers :
        /\ \A i \in 1..Len(_clean_cart(cart[s])) :
              /\ "scalar" \notin DOMAIN _clean_cart(cart[s])[i]
              /\ {"quantity", "price"} \subseteq DOMAIN _clean_cart(cart[s])[i]
        /\ ENABLED view_cart_request(s)

====
